---- MODULE Spec2Model ----
(***************************************************************************)
(* State machine of the sway-im-popup demo input method                    *)
(* (src/sway-im-popup/src/main.rs): the App session, its three event       *)
(* handlers (input method, keyboard grab, frame callback), the Drop impls  *)
(* of the owned protocol objects, and draw / draw_into.                    *)
(*                                                                         *)
(* Protocol objects are numbered in creation order.  Every handler leaves  *)
(* in `out` the requests (and pixel fills) it made, in program order, and  *)
(* `sent` counts the requests that create or destroy an object, and the    *)
(* frame requests, made since startup.                                     *)
(*                                                                         *)
(* The compositor is free: it may send any input-method event at any time, *)
(* grab events while a grab is held, the done event of any outstanding     *)
(* frame callback (whatever became of its surface), and the release of any *)
(* attached buffer.                                                        *)
(***************************************************************************)
EXTENDS Integers, Sequences, FiniteSets, TLC

VARIABLES
    workaround,        \* the condition of the `if` guarding surface replacement
    pending_active,    \* App.pending_active
    grabbed_keyboard,  \* App.grabbed_keyboard: None or the id of the grab
    open_popup,        \* App.open_popup: None or [id, surface]
    surface,           \* App.surface: id of the current wl_surface
    destroyed,         \* ids of the wl_surfaces destroyed so far
    buffer,            \* App.buffer: id of the current Buffer
    nbuffers,          \* number of Buffers created from App.shm_pool
    active,            \* Buffers attached and not yet released by the compositor
    DRAW_COUNT,        \* the static counter of draw_into
    callbacks,         \* per wl_surface: frame callbacks requested, not yet done
    panicked,          \* an expect() failed: the process is gone
    out,               \* requests and fills made by the last handler, in order
    sent,              \* per counted request: how many were made since startup
    last_intent,       \* the last Activate/Deactivate received ("none" at start)
    presses,           \* number of key-press events handled
    key_log,           \* the key events received on the grab, in order
    vk_keys,           \* the key calls made on the virtual keyboard, in order
    data,              \* a pixel slice handed to draw_into (fill specification)
    fill_count         \* the counter value draw_into used for `data` (-1: none)

vars == <<workaround, pending_active, grabbed_keyboard, open_popup, surface,
          destroyed, buffer, nbuffers, active, DRAW_COUNT, callbacks, panicked,
          out, sent, last_intent, presses, key_log, vk_keys, data,
          fill_count>>

----------------------------------------------------------------------------
(* Bounds of the model *)

MaxKeyEvents == 4
MaxGrabs == 2
MaxDraws == 3
MaxCount == 24
MaxRows == 3
MaxLiveKeys == 1
MaxLiveGrabs == 1

(* Program constants *)

WIDTH == 10
HEIGHT == 300

\* Option<T>: None, or Some(x) holding x
None == <<>>
Some(x) == <<x>>

\* (mutant) the surface replacement compiled in
WORKAROUND_Enabled == TRUE

\* `if false {` : surface replacement is compiled out
WORKAROUND == FALSE

(* Inputs: the field values the compositor's events carry *)

\* <<time, key, state>>: a press and a release
KeyEvents == {<<1, 30, 1>>, <<2, 31, 0>>}
\* <<format, fd, size>>
KeymapEvents == {<<1, 5, 64>>, <<7, 6, 32>>}
\* <<mods_depressed, mods_latched, mods_locked, group>>
ModifierEvents == {<<1, 2, 4, 0>>, <<0, 0, 0, 1>>}

----------------------------------------------------------------------------
(* Helpers for the request trace *)

Req(op, args) == [op |-> op, args |-> args]

\* the requests `sent` counts: those that create or destroy a protocol object
Counted == {"grab_keyboard", "release", "get_input_popup_surface",
            "popup.destroy", "surface.destroy", "create_surface",
            "create_buffer", "frame"}

CountOp(op, seq) == Cardinality({i \in 1..Len(seq) : seq[i].op = op})

Tally(cnt, seq) == [op \in Counted |-> cnt[op] + CountOp(op, seq)]

----------------------------------------------------------------------------
(* Wire conversions of the enum arguments (WEnum<T> <-> u32) *)

\* WEnum<wl_keyboard::KeyState> as the grab's Key event carries it
KeyStateFrom(w) ==
    IF w = 0 THEN [tag |-> "Value", v |-> "Released"]
    ELSE IF w = 1 THEN [tag |-> "Value", v |-> "Pressed"]
    ELSE [tag |-> "Unknown", v |-> w]

\* state.into(): the u32 handed to virtual_keyboard.key
KeyStateInto(st) ==
    IF st.tag = "Unknown" THEN st.v
    ELSE IF st.v = "Pressed" THEN 1 ELSE 0

\* WEnum<wl_keyboard::KeymapFormat> as the grab's Keymap event carries it
KeymapFormatFrom(w) ==
    IF w = 0 THEN [tag |-> "Value", v |-> "NoKeymap"]
    ELSE IF w = 1 THEN [tag |-> "Value", v |-> "XkbV1"]
    ELSE [tag |-> "Unknown", v |-> w]

\* (mutant) a format the enum does not know is sent as no_keymap
KeymapFormatInto_Lossy(f) == IF f.tag = "Value" /\ f.v = "XkbV1" THEN 1 ELSE 0

\* format.into(): the u32 handed to virtual_keyboard.keymap
KeymapFormatInto(f) ==
    IF f.tag = "Unknown" THEN f.v
    ELSE IF f.v = "XkbV1" THEN 1 ELSE 0

Pressed == [tag |-> "Value", v |-> "Pressed"]

----------------------------------------------------------------------------
(* Drawing and buffer management *)

RED == <<0, 0, 255, 255>>
BLUE == <<255, 0, 0, 255>>

\* (mutant) only the red pixels are written
draw_into_RedOnly(d, count) ==
    [i \in 1..Len(d) |->
        LET index == (i - 1) \div 4
        IN  IF index < Len(d) \div 4 /\ index \div WIDTH < count \div 10
            THEN RED[((i - 1) % 4) + 1]
            ELSE d[i]]

\* draw_into's loop over data.chunks_exact_mut(4).enumerate(), for the value
\* `count` fetched from the counter: bytes beyond the last whole chunk stay.
draw_into(d, count) ==
    [i \in 1..Len(d) |->
        LET index == (i - 1) \div 4
        IN  IF index < Len(d) \div 4
            THEN IF index \div WIDTH < count \div 10
                 THEN RED[((i - 1) % 4) + 1]
                 ELSE BLUE[((i - 1) % 4) + 1]
            ELSE d[i]]

\* (mutant) the buffer is written whether or not the compositor holds it
canvas_Always(buf, act) == TRUE

\* (mutant) a fresh buffer is allocated for every repaint
canvas_Never(buf, act) == FALSE

\* Buffer::canvas is Some iff the compositor holds no buffer of the slot
canvas(buf, act) == buf \notin act

\* Buffer::attach_to activates the buffer: Err if it is already active
attach_to(buf, act) == buf \notin act

\* (mutant) the next frame callback is not requested
present_NoFrame(b, surf) ==
    <<Req("attach", <<b, surf>>),
      Req("damage_buffer", <<surf, 0, 0, WIDTH, HEIGHT>>),
      Req("commit", <<surf>>)>>

\* (mutant) the frame callback is requested after the commit
present_FrameAfterCommit(b, surf) ==
    <<Req("attach", <<b, surf>>),
      Req("damage_buffer", <<surf, 0, 0, WIDTH, HEIGHT>>),
      Req("commit", <<surf>>),
      Req("frame", <<surf>>)>>

\* (mutant) the surface is not committed
present_NoCommit(b, surf) ==
    <<Req("attach", <<b, surf>>),
      Req("damage_buffer", <<surf, 0, 0, WIDTH, HEIGHT>>),
      Req("frame", <<surf>>)>>

\* the tail of draw once the buffer is activated: surface.attach (inside
\* attach_to), surface.damage_buffer, surface.frame, surface.commit
present(b, surf) ==
    <<Req("attach", <<b, surf>>),
      Req("damage_buffer", <<surf, 0, 0, WIDTH, HEIGHT>>),
      Req("frame", <<surf>>),
      Req("commit", <<surf>>)>>

\* draw(buffer, surface, shm, qh), on buffer `buf` and surface `surf`, with
\* `act` the active buffers, `nb` the buffers created, `dc` the counter and
\* `cbs` the outstanding frame callbacks: the new values and the trace.
draw(buf, surf, act, nb, dc, cbs) ==
    LET reuse == canvas(buf, act)
        b == IF reuse THEN buf ELSE nb
        fill == IF reuse
                THEN <<Req("draw_into", <<b, dc>>)>>
                ELSE <<Req("create_buffer", <<b>>), Req("draw_into", <<b, dc>>)>>
        ok == attach_to(b, act)
    IN  IF ok
        THEN [buffer |-> b,
              nbuffers |-> IF reuse THEN nb ELSE nb + 1,
              active |-> act \cup {b},
              DRAW_COUNT |-> dc + 1,
              callbacks |-> [cbs EXCEPT
                               ![surf] = @ + CountOp("frame", present(b, surf))],
              panicked |-> FALSE,
              out |-> fill \o present(b, surf)]
        ELSE [buffer |-> b,
              nbuffers |-> IF reuse THEN nb ELSE nb + 1,
              active |-> act,
              DRAW_COUNT |-> dc + 1,
              callbacks |-> cbs,
              panicked |-> TRUE,
              out |-> fill]

----------------------------------------------------------------------------
(* Owned protocol objects *)

\* (mutant) the grab is forgotten without release
GrabbedKeyboardDrop_Forget(id) == <<>>

\* impl Drop for GrabbedKeyboard: self.0.release()
GrabbedKeyboardDrop(id) == <<Req("release", <<id>>)>>

\* (mutant) the popup is forgotten without destroy
OpenPopupDrop_Forget(id) == <<>>

\* impl Drop for OpenPopup: self.0.destroy()
OpenPopupDrop(id) == <<Req("popup.destroy", <<id>>)>>

\* (mutant) every key event toggles, releases too
IsPressed_AnyState(st) == TRUE

\* `state == WEnum::Value(wl_keyboard::KeyState::Pressed)`
IsPressed(st) == st = Pressed

\* (mutant) the replacement sits outside the branch that shows the popup
Replaces_EveryKey(show, flag) == flag

\* `if false {` inside the branch that shows the popup: is the surface replaced
Replaces(show, flag) == show /\ flag

\* (mutant) the forwarding sits inside the `if state == Pressed` block
ForwardKey_PressedOnly(time, key, st) ==
    IF st = Pressed THEN <<Req("vk.key", <<time, key, KeyStateInto(st)>>)>> ELSE <<>>

\* app.virtual_keyboard.key(time, key, state.into())
ForwardKey(time, key, st) == <<Req("vk.key", <<time, key, KeyStateInto(st)>>)>>

\* app.virtual_keyboard.keymap(format.into(), fd.as_fd(), size); as_fd borrows
\* the event's descriptor, so the call carries the same descriptor
ForwardKeymap(format, fd, size) ==
    <<Req("vk.keymap", <<KeymapFormatInto(format), fd, size>>)>>

\* app.virtual_keyboard.modifiers(mods_depressed, mods_latched, mods_locked, group)
ForwardModifiers(dep, lat, lck, grp) ==
    <<Req("vk.modifiers", <<dep, lat, lck, grp>>)>>

----------------------------------------------------------------------------
(* The session after main() has built App *)

InitSession ==
    /\ pending_active = FALSE
    /\ grabbed_keyboard = None
    /\ open_popup = None
    /\ surface = 0
    /\ destroyed = {}
    /\ buffer = 0
    /\ nbuffers = 1
    /\ active = {}
    /\ callbacks = (0 :> 0)
    /\ panicked = FALSE
    /\ out = <<>>
    /\ sent = [op \in Counted |-> IF op \in {"create_surface", "create_buffer"}
                              THEN 1 ELSE 0]
    /\ last_intent = "none"
    /\ presses = 0
    /\ key_log = <<>>
    /\ vk_keys = <<>>

Init ==
    /\ workaround = WORKAROUND
    /\ InitSession
    /\ DRAW_COUNT = 0
    /\ data = <<>>
    /\ fill_count = -1

\* the session with the surface replacement compiled in or out
InitAny ==
    /\ workaround \in BOOLEAN
    /\ InitSession
    /\ DRAW_COUNT = 0
    /\ data = <<>>
    /\ fill_count = -1

----------------------------------------------------------------------------
(* impl Dispatch<ZwpInputMethodV2, ()> for App *)

\* (mutant) the grab is taken on the intent event, before the commit
Activate_Eager ==
    /\ ~panicked
    /\ grabbed_keyboard = None
    /\ sent["grab_keyboard"] < MaxGrabs
    /\ pending_active' = TRUE
    /\ last_intent' = "Activate"
    /\ grabbed_keyboard' = Some(sent["grab_keyboard"])
    /\ out' = <<Req("grab_keyboard", <<sent["grab_keyboard"]>>)>>
    /\ sent' = Tally(sent, out')
    /\ UNCHANGED <<workaround, open_popup, surface, destroyed, buffer, nbuffers,
                   active, DRAW_COUNT, callbacks, panicked, presses, key_log,
                   vk_keys, data, fill_count>>

Activate ==
    /\ ~panicked
    /\ pending_active' = TRUE
    /\ last_intent' = "Activate"
    /\ out' = <<>>
    /\ UNCHANGED <<workaround, grabbed_keyboard, open_popup, surface, destroyed,
                   buffer, nbuffers, active, DRAW_COUNT, callbacks, panicked,
                   sent, presses, key_log, vk_keys, data, fill_count>>

Deactivate ==
    /\ ~panicked
    /\ pending_active' = FALSE
    /\ last_intent' = "Deactivate"
    /\ out' = <<>>
    /\ UNCHANGED <<workaround, grabbed_keyboard, open_popup, surface, destroyed,
                   buffer, nbuffers, active, DRAW_COUNT, callbacks, panicked,
                   sent, presses, key_log, vk_keys, data, fill_count>>

\* (mutant) a commit of "inactive" keeps the grab
DoneResult_KeepsGrab(pending, grabbed, id) ==
    IF pending /\ grabbed = None
    THEN [grabbed_keyboard |-> Some(id),
          out |-> <<Req("grab_keyboard", <<id>>)>>]
    ELSE [grabbed_keyboard |-> grabbed, out |-> <<>>]

\* the Done arm: the new grabbed_keyboard and the requests made, `id` being
\* the id the next grab gets
DoneResult(pending, grabbed, id) ==
    IF pending
    THEN IF grabbed = None
         THEN [grabbed_keyboard |-> Some(id),
               out |-> <<Req("grab_keyboard", <<id>>)>>]
         ELSE [grabbed_keyboard |-> grabbed, out |-> <<>>]
    ELSE [grabbed_keyboard |-> None,
          out |-> IF grabbed # None THEN GrabbedKeyboardDrop(grabbed[1]) ELSE <<>>]

\* (mutant) a commit of "inactive" also closes the popup
Done_ClosesPopup ==
    /\ ~panicked
    /\ (pending_active /\ grabbed_keyboard = None)
          => sent["grab_keyboard"] < MaxGrabs
    /\ LET r == DoneResult(pending_active, grabbed_keyboard, sent["grab_keyboard"])
           o == r.out \o (IF ~pending_active /\ open_popup # None
                          THEN OpenPopupDrop(open_popup[1].id) ELSE <<>>)
       IN  /\ grabbed_keyboard' = r.grabbed_keyboard
           /\ open_popup' = IF pending_active THEN open_popup ELSE None
           /\ out' = o
           /\ sent' = Tally(sent, o)
    /\ UNCHANGED <<workaround, pending_active, surface, destroyed,
                   buffer, nbuffers, active, DRAW_COUNT, callbacks, panicked,
                   last_intent, presses, key_log, vk_keys, data, fill_count>>

Done ==
    /\ ~panicked
    /\ (pending_active /\ grabbed_keyboard = None)
          => sent["grab_keyboard"] < MaxGrabs
    /\ LET r == DoneResult(pending_active, grabbed_keyboard, sent["grab_keyboard"])
       IN  /\ grabbed_keyboard' = r.grabbed_keyboard
           /\ out' = r.out
           /\ sent' = Tally(sent, r.out)
    /\ UNCHANGED <<workaround, pending_active, open_popup, surface, destroyed,
                   buffer, nbuffers, active, DRAW_COUNT, callbacks, panicked,
                   last_intent, presses, key_log, vk_keys, data, fill_count>>

\* the `_ => {}` arm: SurroundingText, TextChangeCause, ContentType, Unavailable
InputMethodOther ==
    /\ ~panicked
    /\ out' = <<>>
    /\ UNCHANGED <<workaround, pending_active, grabbed_keyboard, open_popup,
                   surface, destroyed, buffer, nbuffers, active, DRAW_COUNT,
                   callbacks, panicked, sent, last_intent, presses, key_log,
                   vk_keys, data, fill_count>>

----------------------------------------------------------------------------
(* impl Dispatch<ZwpInputMethodKeyboardGrabV2, ()> for App                  *)
(* The compositor sends these events on a grab, and events that arrive for  *)
(* a grab the client has released are dropped before dispatch.              *)

Key(time, key, w) ==
    /\ ~panicked
    /\ grabbed_keyboard # None
    /\ Len(key_log) < MaxKeyEvents
    /\ LET state == KeyStateFrom(w)
           toggle == IsPressed(state)
           hide == toggle /\ open_popup # None
           show == toggle /\ open_popup = None
           replace == Replaces(show, workaround)
           fresh == Cardinality(DOMAIN callbacks)
           surf == IF replace THEN fresh ELSE surface
           cbs == IF replace THEN callbacks @@ (fresh :> 0) ELSE callbacks
           popup == [id |-> sent["get_input_popup_surface"], surface |-> surf]
           d == draw(buffer, surf, active, nbuffers, DRAW_COUNT, cbs)
           crash == show /\ d.panicked
           o == (IF hide THEN OpenPopupDrop(open_popup[1].id) ELSE <<>>)
                \o (IF replace
                    THEN <<Req("surface.destroy", <<surface>>),
                           Req("create_surface", <<fresh>>)>>
                    ELSE <<>>)
                \o (IF show
                    THEN <<Req("get_input_popup_surface", <<popup.id, surf>>)>>
                         \o d.out
                    ELSE <<>>)
                \o (IF crash THEN <<>> ELSE ForwardKey(time, key, state))
       IN  /\ show => DRAW_COUNT < MaxDraws
           /\ open_popup' = IF hide THEN None
                            ELSE IF show THEN Some(popup) ELSE open_popup
           /\ surface' = surf
           /\ destroyed' = IF replace THEN destroyed \cup {surface} ELSE destroyed
           /\ buffer' = IF show THEN d.buffer ELSE buffer
           /\ nbuffers' = IF show THEN d.nbuffers ELSE nbuffers
           /\ active' = IF show THEN d.active ELSE active
           /\ DRAW_COUNT' = IF show THEN d.DRAW_COUNT ELSE DRAW_COUNT
           /\ callbacks' = IF show THEN d.callbacks ELSE callbacks
           /\ panicked' = crash
           /\ out' = o
           /\ sent' = Tally(sent, o)
           /\ vk_keys' = vk_keys \o
                 [i \in 1..CountOp("vk.key", o) |->
                     SelectSeq(o, LAMBDA r : r.op = "vk.key")[i].args]
           \* counted from the wire value (1 is pressed), not from the handler's test
           /\ presses' = IF w = 1 THEN presses + 1 ELSE presses
    /\ key_log' = Append(key_log, <<time, key, w>>)
    /\ UNCHANGED <<workaround, pending_active, grabbed_keyboard, last_intent,
                   data, fill_count>>

Keymap(format, fd, size) ==
    /\ ~panicked
    /\ grabbed_keyboard # None
    /\ LET o == ForwardKeymap(KeymapFormatFrom(format), fd, size)
       IN  /\ out' = o
           /\ sent' = Tally(sent, o)
    /\ UNCHANGED <<workaround, pending_active, grabbed_keyboard, open_popup,
                   surface, destroyed, buffer, nbuffers, active, DRAW_COUNT,
                   callbacks, panicked, last_intent, presses, key_log, vk_keys,
                   data, fill_count>>

Modifiers(dep, lat, lck, grp) ==
    /\ ~panicked
    /\ grabbed_keyboard # None
    /\ LET o == ForwardModifiers(dep, lat, lck, grp)
       IN  /\ out' = o
           /\ sent' = Tally(sent, o)
    /\ UNCHANGED <<workaround, pending_active, grabbed_keyboard, open_popup,
                   surface, destroyed, buffer, nbuffers, active, DRAW_COUNT,
                   callbacks, panicked, last_intent, presses, key_log, vk_keys,
                   data, fill_count>>

\* the `_ => {}` arm: RepeatInfo
GrabOther ==
    /\ ~panicked
    /\ grabbed_keyboard # None
    /\ out' = <<>>
    /\ UNCHANGED <<workaround, pending_active, grabbed_keyboard, open_popup,
                   surface, destroyed, buffer, nbuffers, active, DRAW_COUNT,
                   callbacks, panicked, sent, last_intent, presses, key_log,
                   vk_keys, data, fill_count>>

----------------------------------------------------------------------------
(* impl Dispatch<WlCallback, ()> for App: the done event of a frame         *)
(* callback that was requested on wl_surface s                              *)

Frame(s) ==
    /\ ~panicked
    /\ callbacks[s] > 0
    /\ DRAW_COUNT < MaxDraws
    /\ LET cbs == [callbacks EXCEPT ![s] = @ - 1]
           d == draw(buffer, surface, active, nbuffers, DRAW_COUNT, cbs)
       IN  /\ buffer' = d.buffer
           /\ nbuffers' = d.nbuffers
           /\ active' = d.active
           /\ DRAW_COUNT' = d.DRAW_COUNT
           /\ callbacks' = d.callbacks
           /\ panicked' = d.panicked
           /\ out' = d.out
           /\ sent' = Tally(sent, d.out)
    /\ UNCHANGED <<workaround, pending_active, grabbed_keyboard, open_popup,
                   surface, destroyed, last_intent, presses, key_log, vk_keys,
                   data, fill_count>>

\* wl_buffer.release of an attached buffer, handled inside the slot pool
BufferRelease(b) ==
    /\ ~panicked
    /\ b \in active
    /\ active' = active \ {b}
    /\ out' = <<>>
    /\ UNCHANGED <<workaround, pending_active, grabbed_keyboard, open_popup,
                   surface, destroyed, buffer, nbuffers, DRAW_COUNT, callbacks,
                   panicked, sent, last_intent, presses, key_log, vk_keys,
                   data, fill_count>>

----------------------------------------------------------------------------
(* event_queue.blocking_dispatch(&mut app) in a loop *)

Next ==
    \/ Activate
    \/ Deactivate
    \/ Done
    \/ InputMethodOther
    \/ \E e \in KeyEvents : Key(e[1], e[2], e[3])
    \/ \E e \in KeymapEvents : Keymap(e[1], e[2], e[3])
    \/ \E e \in ModifierEvents : Modifiers(e[1], e[2], e[3], e[4])
    \/ GrabOther
    \/ \E s \in DOMAIN callbacks : Frame(s)
    \/ \E b \in active : BufferRelease(b)

Spec == Init /\ [][Next]_vars

SpecAny == InitAny /\ [][Next]_vars

\* the session with a compositor that delivers the done event of an
\* outstanding frame callback eventually (the dispatch loop handles every
\* event delivered), followed over MaxLiveKeys key events and MaxLiveGrabs
\* grabs
NextLive ==
    \/ Activate
    \/ Deactivate
    \/ Done /\ sent'["grab_keyboard"] <= MaxLiveGrabs
    \/ InputMethodOther
    \/ \E e \in KeyEvents : Key(e[1], e[2], e[3]) /\ Len(key_log') <= MaxLiveKeys
    \/ \E e \in KeymapEvents : Keymap(e[1], e[2], e[3])
    \/ \E e \in ModifierEvents : Modifiers(e[1], e[2], e[3], e[4])
    \/ GrabOther
    \/ \E s \in DOMAIN callbacks : Frame(s)
    \/ \E b \in active : BufferRelease(b)

SpecLive ==
    Init /\ [][NextLive]_vars /\ WF_vars(\E s \in DOMAIN callbacks : Frame(s))

----------------------------------------------------------------------------
(* draw_into on its own: a pixel slice of 1..MaxRows rows of WIDTH pixels,   *)
(* zeroed by the pool or holding an earlier fill, filled at any value of     *)
(* the counter.  The session specifications follow which buffer is filled    *)
(* at which counter value (the draw_into entries of `out`), this one what    *)
(* the fill writes.                                                          *)

InitFill ==
    /\ workaround = WORKAROUND
    /\ InitSession
    /\ DRAW_COUNT \in 0..MaxCount
    /\ \E rows \in 1..MaxRows : data = [i \in 1..(rows * WIDTH * 4) |-> 0]
    /\ fill_count = -1

\* draw_into(data): fetch_add of the counter, then the fill
Fill ==
    /\ DRAW_COUNT <= MaxCount
    /\ fill_count' = DRAW_COUNT
    /\ DRAW_COUNT' = DRAW_COUNT + 1
    /\ data' = draw_into(data, DRAW_COUNT)
    /\ UNCHANGED <<workaround, pending_active, grabbed_keyboard, open_popup,
                   surface, destroyed, buffer, nbuffers, active, callbacks,
                   panicked, out, sent, last_intent, presses, key_log, vk_keys>>

NextFill == Fill

SpecFill == InitFill /\ [][NextFill]_vars

----------------------------------------------------------------------------
(* Properties *)

GrabHeld == grabbed_keyboard # None
PopupShown == open_popup # None
GrabsOutstanding == sent["grab_keyboard"] - sent["release"]
PopupsOutstanding == sent["get_input_popup_surface"] - sent["popup.destroy"]

\* the wl_surfaces, live or destroyed, with a frame callback requested and
\* not yet handled
SurfacesWithFramePending == {s \in DOMAIN callbacks : callbacks[s] > 0}

\* C1: after a Done commit a Grab is held iff the last intent event before it
\* was Activate, and the grab_keyboard requests not matched by a release are
\* never more than one.
C1_GrabFollowsLatchedIntent ==
    /\ [][Done => (GrabHeld' <=> last_intent = "Activate")]_vars
    /\ [](GrabsOutstanding \in {0, 1})

\* C1 witness: Activate, Done, Deactivate, Done has released the grab
C1_Witness ==
    /\ last_intent = "Deactivate"
    /\ out = <<Req("release", <<0>>)>>
    /\ ~GrabHeld

\* C2: a Popup exists iff the number of key-press events handled so far is
\* odd, and a key event that is no press leaves the Popup as it is.
C2_PopupIffOddPresses ==
    /\ [](PopupShown <=> presses % 2 = 1)
    /\ [][\A e \in KeyEvents :
            (e[3] # 1 /\ Key(e[1], e[2], e[3])) => UNCHANGED open_popup]_vars

\* C2 witness: a release handled after the third press, the Popup still shown
C2_Witness ==
    /\ presses = 3
    /\ PopupShown
    /\ Len(key_log) = 4
    /\ key_log[4][3] = 0

\* C3: the key calls made on the virtual keyboard are the key events received
\* on the grab, one call per event, with the same time, key and state, in the
\* same order.
C3_KeysForwardedInOrder == vk_keys = key_log

\* C3 witness: press (shows), release, press (hides), release were forwarded
C3_Witness ==
    /\ Len(vk_keys) = 4
    /\ vk_keys[1][3] = 1 /\ vk_keys[2][3] = 0
    /\ vk_keys[3][3] = 1 /\ vk_keys[4][3] = 0

C5_OneReleasePerOwnedObject ==
    /\ GrabsOutstanding = (IF GrabHeld THEN 1 ELSE 0)
    /\ PopupsOutstanding = (IF PopupShown THEN 1 ELSE 0)

\* C5 witness: a grab and a popup have been dropped, and a second popup is held
C5_Witness ==
    /\ sent["release"] = 1
    /\ sent["popup.destroy"] = 1
    /\ PopupShown

\* C6: Activate and Deactivate make no request and change nothing but
\* pending_active (and the record of the last intent); a step that makes a
\* grab_keyboard or release request is a Done.
C6_IntentHasNoSideEffect ==
    [][/\ (Activate \/ Deactivate) =>
            /\ out' = <<>>
            /\ UNCHANGED <<grabbed_keyboard, open_popup, surface, destroyed,
                           buffer, nbuffers, active, DRAW_COUNT, callbacks,
                           sent, panicked>>
       /\ (sent'["grab_keyboard"] # sent["grab_keyboard"]
            \/ sent'["release"] # sent["release"]) => Done]_vars

\* C6 witness: the first Activate is latched and, the commit not yet received,
\* no grab has been requested
C6_Witness ==
    /\ pending_active
    /\ last_intent = "Activate"
    /\ ~GrabHeld
    /\ sent["grab_keyboard"] = 0
    /\ out = <<>>

\* the defect condition: Popup Shown, Grab held, no surface replacement, two
\* or more Popups created
C7_DefectCondition ==
    /\ PopupShown
    /\ GrabHeld
    /\ ~workaround
    /\ sent["get_input_popup_surface"] >= 2

\* C7: in the defect condition, Deactivate and the Done that follows it
\* complete without a panic, the Done makes the release request of the held
\* grab, and no Grab is held afterwards.
C7_DeactivateReleasesWithoutCrash ==
    [][/\ (C7_DefectCondition /\ Deactivate) =>
            (~panicked' /\ C7_DefectCondition' /\ last_intent' = "Deactivate")
       /\ (C7_DefectCondition /\ last_intent = "Deactivate" /\ Done) =>
            /\ ~panicked'
            /\ out' = <<Req("release", <<grabbed_keyboard[1]>>)>>
            /\ ~GrabHeld']_vars

\* C7 witness: the grab was released by a Done with the second Popup shown
C7_Witness ==
    /\ ~workaround
    /\ PopupShown
    /\ sent["get_input_popup_surface"] = 2
    /\ last_intent = "Deactivate"
    /\ out = <<Req("release", <<0>>)>>
    /\ ~GrabHeld
    /\ ~panicked

\* the surface.destroy and create_surface requests among `seq`
Replacements(seq) ==
    SelectSeq(seq, LAMBDA r : r.op \in {"surface.destroy", "create_surface"})

\* C8: with the replacement enabled, presses 1, 3, ... each destroy the
\* Surface once and create one fresh Surface, presses 2, 4, ... none; with it
\* disabled no press does, and nothing else ever does.
C8_ReplaceOnOddPressesIffEnabled ==
    /\ [](/\ sent["surface.destroy"] =
                (IF workaround THEN (presses + 1) \div 2 ELSE 0)
          /\ sent["create_surface"] = 1 + sent["surface.destroy"])
    /\ [][\A e \in KeyEvents : (e[3] = 1 /\ Key(e[1], e[2], e[3])) =>
            IF workaround /\ presses % 2 = 0
            THEN /\ Replacements(out') =
                        <<Req("surface.destroy", <<surface>>),
                          Req("create_surface", <<surface'>>)>>
                 /\ surface' \notin DOMAIN callbacks
                 /\ surface' \notin destroyed'
                 /\ surface \in destroyed'
            ELSE /\ Replacements(out') = <<>>
                 /\ UNCHANGED <<surface, destroyed>>]_vars

\* C8 witness: four presses with the replacement enabled, two Surfaces replaced
C8_Witness ==
    /\ workaround
    /\ presses = 4
    /\ sent["surface.destroy"] = 2
    /\ destroyed = {0, 1}
    /\ surface = 2

\* C9: a Keymap or Modifiers event makes exactly one request, the keymap or
\* modifiers call of the virtual keyboard with the event's field values, and
\* leaves the Popup, Surface, Grab and outstanding frame callbacks unchanged.
C9_KeymapModifiersPassThrough ==
    [][/\ \A e \in KeymapEvents : Keymap(e[1], e[2], e[3]) =>
            /\ out' = <<Req("vk.keymap", e)>>
            /\ UNCHANGED <<open_popup, presses, surface, destroyed,
                           grabbed_keyboard, callbacks, buffer, active>>
       /\ \A e \in ModifierEvents : Modifiers(e[1], e[2], e[3], e[4]) =>
            /\ out' = <<Req("vk.modifiers", e)>>
            /\ UNCHANGED <<open_popup, presses, surface, destroyed,
                           grabbed_keyboard, callbacks, buffer, active>>]_vars

\* C9 witness: a keymap of a format the enum does not name was passed through
\* while the Popup was shown
C9_Witness ==
    /\ out = <<Req("vk.keymap", <<7, 6, 32>>)>>
    /\ PopupShown
    /\ callbacks[surface] = 1

\* the fill for counter value c of a slice of n bytes: rows of WIDTH pixels,
\* those with index < c / 10 red, the others blue
Pattern(c, n) ==
    [i \in 1..n |->
        IF (i - 1) \div (4 * WIDTH) < c \div 10
        THEN RED[((i - 1) % 4) + 1]
        ELSE BLUE[((i - 1) % 4) + 1]]

\* C10: the content of a filled slice is the pattern of the counter value the
\* fill used, whatever the slice held before.
C10_FillIsFunctionOfCounter ==
    fill_count >= 0 => data = Pattern(fill_count, Len(data))

\* C10 witness: a three-row slice filled at counter value 20:
\* rows 0 and 1 red, row 2 blue
C10_Witness ==
    /\ fill_count = 20
    /\ Len(data) = 3 * WIDTH * 4
    /\ data[3] = 255 /\ data[1] = 0
    /\ data[2 * WIDTH * 4 + 1] = 255 /\ data[2 * WIDTH * 4 + 3] = 0

----------------------------------------------------------------------------
(* Properties of the popup toggle and the redraw loop *)

\* the position in `seq` of the first request `op` (0: none)
IndexOf(op, seq) ==
    IF CountOp(op, seq) = 0 THEN 0
    ELSE CHOOSE i \in 1..Len(seq) :
            seq[i].op = op /\ \A j \in 1..(i - 1) : seq[j].op # op

\* the requests `op` among `seq`
Only(op, seq) == SelectSeq(seq, LAMBDA r : r.op = op)

\* all frame callbacks requested and not yet handled
FramesOutstanding ==
    LET RECURSIVE Sum(_)
        Sum(S) == IF S = {} THEN 0
                  ELSE LET s == CHOOSE x \in S : TRUE
                       IN  callbacks[s] + Sum(S \ {s})
    IN  Sum(DOMAIN callbacks)

\* C11: every live wl_surface has at most one frame callback requested and not
\* yet handled.  (Refuted: each show of the popup requests one more on the
\* surface that still has the one of the show before.)
C11_OneFramePendingPerLiveSurface ==
    \A s \in DOMAIN callbacks \ destroyed : callbacks[s] <= 1

\* C12: a press that finds no Popup creates exactly one Popup, bound to the
\* Surface the session holds after the handler, and then repaints that Surface
\* exactly once (one fill, one attach, one commit) before it forwards the key.
C12_ShowCreatesPopupThenRepaints ==
    [][\A e \in KeyEvents : (e[3] = 1 /\ ~PopupShown /\ Key(e[1], e[2], e[3])) =>
          LET o == out'
              id == sent["get_input_popup_surface"]
          IN  /\ Only("get_input_popup_surface", o) =
                    <<Req("get_input_popup_surface", <<id, surface'>>)>>
              /\ open_popup' = Some([id |-> id, surface |-> surface'])
              /\ surface' \notin destroyed'
              /\ Only("draw_into", o) = <<Req("draw_into", <<buffer', DRAW_COUNT>>)>>
              /\ Only("attach", o) = <<Req("attach", <<buffer', surface'>>)>>
              /\ Only("commit", o) = <<Req("commit", <<surface'>>)>>
              /\ Only("vk.key", o) = <<Req("vk.key", e)>>
              /\ IndexOf("get_input_popup_surface", o) < IndexOf("draw_into", o)
              /\ IndexOf("draw_into", o) < IndexOf("attach", o)
              /\ IndexOf("attach", o) < IndexOf("commit", o)
              /\ IndexOf("commit", o) < IndexOf("vk.key", o)
              /\ IndexOf("vk.key", o) = Len(o)]_vars

\* C12 witness: the third press has shown the second Popup on a replacement
\* Surface and repainted it
C12_Witness ==
    /\ workaround
    /\ presses = 3
    /\ open_popup = Some([id |-> 1, surface |-> 2])
    /\ surface = 2
    /\ Only("commit", out) = <<Req("commit", <<2>>)>>
    /\ out[Len(out)] = Req("vk.key", <<1, 30, 1>>)

\* C13: a press that finds the Popup shown makes the destroy request of that
\* Popup and forwards the key, nothing else: no Popup is left, the Surface is
\* neither destroyed nor replaced, nothing is painted, no frame is requested.
C13_HideDestroysPopupOnly ==
    [][\A e \in KeyEvents : (e[3] = 1 /\ PopupShown /\ Key(e[1], e[2], e[3])) =>
          /\ out' = <<Req("popup.destroy", <<open_popup[1].id>>),
                      Req("vk.key", e)>>
          /\ open_popup' = None
          /\ sent'["frame"] = sent["frame"]
          /\ UNCHANGED <<surface, destroyed, DRAW_COUNT, callbacks, buffer,
                         nbuffers, active>>]_vars

\* C13 witness: the second press has hidden the Popup; the frame callback of
\* the show is still outstanding on the Surface
C13_Witness ==
    /\ presses = 2
    /\ out = <<Req("popup.destroy", <<0>>), Req("vk.key", <<1, 30, 1>>)>>
    /\ ~PopupShown
    /\ callbacks[surface] = 1

\* C14: the done event of a frame callback requested on a wl_surface that has
\* been destroyed since is ignored: no fill, no attach, no frame request.
\* (Refuted with the replacement compiled in: the handler repaints whatever
\* callback is done.)
C14_StaleFrameIgnored ==
    [][\A s \in destroyed : Frame(s) =>
          /\ out' = <<>>
          /\ sent'["frame"] = sent["frame"]
          /\ UNCHANGED <<DRAW_COUNT, buffer, nbuffers, active>>]_vars


\* C15: the handler of a frame callback's done event repaints exactly once and
\* requests exactly one frame callback, on the current Surface, so the number
\* outstanding stays; and with the done events delivered, once the popup has
\* been shown the repaints keep coming, up to the model's bound on the
\* counter.
C15_FrameLoopNeverStalls ==
    /\ [][\A s \in DOMAIN callbacks : Frame(s) =>
            /\ Only("draw_into", out') = <<Req("draw_into", <<buffer', DRAW_COUNT>>)>>
            /\ Only("attach", out') = <<Req("attach", <<buffer', surface>>)>>
            /\ Only("commit", out') = <<Req("commit", <<surface>>)>>
            /\ Only("frame", out') = <<Req("frame", <<surface>>)>>
            /\ DRAW_COUNT' = DRAW_COUNT + 1
            /\ callbacks' = [[callbacks EXCEPT ![s] = @ - 1]
                                EXCEPT ![surface] = @ + 1]]_vars
    /\ (DRAW_COUNT >= 1) ~> (DRAW_COUNT = MaxDraws)

\* C15 witness: the popup was shown once and two done events have each been
\* answered by a repaint; the last handler was the callback's
C15_Witness ==
    /\ sent["get_input_popup_surface"] = 1
    /\ DRAW_COUNT = 3
    /\ out # <<>>
    /\ out[1].op \in {"draw_into", "create_buffer"}
    /\ FramesOutstanding = 1


\* C16 as claimed: a repaint requests attach, damage, commit, and only then
\* the frame callback.  (Refuted: the frame callback is requested before the
\* commit, which is what makes the commit carry it.)
C16_FrameRequestedAfterCommit ==
    CountOp("attach", out) > 0 =>
        /\ IndexOf("attach", out) < IndexOf("damage_buffer", out)
        /\ IndexOf("damage_buffer", out) < IndexOf("commit", out)
        /\ IndexOf("commit", out) < IndexOf("frame", out)

\* C16 amended: a repaint requests, once each and in this order, attach of the
\* buffer, damage of the whole surface, the frame callback, commit.
C16_FrameRequestedBeforeCommit ==
    CountOp("attach", out) > 0 =>
        LET i == IndexOf("attach", out)
            s == out[i].args[2]
        IN  /\ SubSeq(out, i, Len(out)) \in
                  { <<out[i],
                      Req("damage_buffer", <<s, 0, 0, WIDTH, HEIGHT>>),
                      Req("frame", <<s>>),
                      Req("commit", <<s>>)>> \o tail :
                    tail \in {<<>>} \cup {<<Req("vk.key", e)>> : e \in KeyEvents} }
            /\ CountOp("attach", out) = 1
            /\ CountOp("frame", out) = 1
            /\ CountOp("commit", out) = 1

\* C16 witness: the repaint of a frame callback's handler
C16_Witness ==
    /\ Len(out) = 5
    /\ out[1].op = "draw_into"
    /\ out[4] = Req("frame", <<0>>)
    /\ out[5] = Req("commit", <<0>>)

\* C17 as claimed: at most one buffer is attached and not yet released.
\* (Refuted: a repaint that finds the buffer in flight attaches a fresh one.)
C17_AtMostOneBufferInFlight == Cardinality(active) <= 1

\* C17 amended: the buffers in flight are never more than the buffers created
\* (one, plus one per repaint that had to allocate), so at most one until a
\* repaint has to allocate; a repaint allocates only when the session's buffer
\* is in flight, and right after it that buffer and the fresh one both are.
C17_InFlightBoundedByAllocations ==
    /\ [](/\ active \subseteq 0..(nbuffers - 1)
          /\ Cardinality(active) <= nbuffers)
    /\ [][nbuffers' # nbuffers =>
            /\ nbuffers' = nbuffers + 1
            /\ buffer \in active
            /\ buffer' = nbuffers
            /\ active' = active \cup {buffer'}
            /\ Cardinality(active') >= 2]_vars

\* C17 witness: three repaints with nothing released: three buffers in flight
C17_Witness ==
    /\ nbuffers = 3
    /\ active = {0, 1, 2}
    /\ buffer = 2

\* C18: a step that repaints fills exactly one buffer, with the counter's
\* value, and advances the counter by one; the buffer filled was not in flight
\* and is the session's buffer afterwards, attached to the current Surface: the
\* existing buffer iff it was not in flight, otherwise a freshly created one.
C18_RepaintFillsReleasedOrFreshBuffer ==
    [][DRAW_COUNT' # DRAW_COUNT =>
          /\ DRAW_COUNT' = DRAW_COUNT + 1
          /\ Only("draw_into", out') = <<Req("draw_into", <<buffer', DRAW_COUNT>>)>>
          /\ buffer' \notin active
          /\ buffer' \in active'
          /\ Only("attach", out') = <<Req("attach", <<buffer', surface'>>)>>
          /\ IF buffer \notin active
             THEN /\ buffer' = buffer
                  /\ nbuffers' = nbuffers
                  /\ CountOp("create_buffer", out') = 0
             ELSE /\ buffer' = nbuffers
                  /\ nbuffers' = nbuffers + 1
                  /\ Only("create_buffer", out') = <<Req("create_buffer", <<buffer'>>)>>
                  /\ IndexOf("create_buffer", out') < IndexOf("draw_into", out')]_vars

\* C18 witness: a repaint allocated buffer 1, the compositor released it, and
\* the next repaint filled it again while buffer 0 was still in flight
C18_Witness ==
    /\ nbuffers = 2
    /\ buffer = 1
    /\ active = {0, 1}
    /\ DRAW_COUNT = 3
    /\ Only("draw_into", out) = <<Req("draw_into", <<1, 2>>)>>
    /\ CountOp("create_buffer", out) = 0

\* C19: as compiled, the frame callbacks outstanding are as many as the shows
\* of the popup so far, and before the first press nothing was painted and no
\* frame callback requested.
C19_OutstandingFramesCountShows ==
    /\ FramesOutstanding = sent["get_input_popup_surface"]
    /\ sent["get_input_popup_surface"] = (presses + 1) \div 2
    /\ presses = 0 => (DRAW_COUNT = 0 /\ sent["frame"] = 0)

\* C19 witness: two shows and one done event handled: two outstanding
C19_Witness ==
    /\ ~workaround
    /\ presses = 3
    /\ DRAW_COUNT = 3
    /\ sent["frame"] = 3
    /\ FramesOutstanding = 2

\* C20: a Done leaves the Popup, the Surface, the buffers and the outstanding
\* frame callbacks as they are, and so do Activate and Deactivate; a press
\* that finds the Popup shown, under whichever grab, hides it.
C20_DoneLeavesPopupAlone ==
    [][/\ Done => UNCHANGED <<open_popup, surface, destroyed, buffer, nbuffers,
                              active, callbacks, DRAW_COUNT>>
       /\ (Activate \/ Deactivate) => UNCHANGED open_popup
       /\ \A e \in KeyEvents : (e[3] = 1 /\ PopupShown /\ Key(e[1], e[2], e[3])) =>
             (~PopupShown' /\ out'[1] = Req("popup.destroy", <<open_popup[1].id>>))]_vars

\* C20 witness: the Popup shown under the first grab is still shown, with its
\* frame callback outstanding, when the Done of the re-activation has taken
\* the second grab
C20_Witness ==
    /\ out = <<Req("grab_keyboard", <<1>>)>>
    /\ grabbed_keyboard = Some(1)
    /\ presses = 1
    /\ open_popup = Some([id |-> 0, surface |-> 0])
    /\ FramesOutstanding = 1

====
